---- MODULE Spec2Model ----
(***************************************************************************)
(* A model of the Merkle-Patricia trie of packages/trie/src/trie/trie.ts.  *)
(*                                                                         *)
(* Representation.  A Buffer is a sequence of bytes (0..255); a nibble     *)
(* path is a sequence of 0..15.  Everything that is RLP-encoded is an      *)
(* "item":                                                                 *)
(*    Buf(b)  a byte string b;                                             *)
(*    Hash(x) the 32-byte digest of the RLP encoding of item x (the hash   *)
(*            is taken to be injective, so the digest is named by its      *)
(*            preimage; the preimage is never read back out of it: a node  *)
(*            is only ever obtained from a digest through the store);      *)
(*    Lst(s)  a list of items.                                             *)
(* An encoded node (a Buffer holding RLP bytes) is represented by the list *)
(* item it encodes together with encodedLength, its length in bytes.       *)
(* Buffer | null results use the empty sequence for null: no stored value  *)
(* is empty (put of an empty value deletes, the branch value getter maps   *)
(* the empty value to null).                                               *)
(***************************************************************************)
EXTENDS Integers, Sequences, FiniteSets, TLC

\* ------------------------------------------------------------------ bounds

\* Calls issued on a trie instance constructed empty.
MaxOps == 4

\* Pairs in a store a trie instance is constructed over, and calls issued on
\* such an instance.
MaxStoredKeys == 3
MaxReopenOps == 2

\* Calls issued on a trie instance that takes batches, and operations in one
\* batch.
MaxBatchCalls == 2
MaxBatchLen == 2

\* Calls issued on a trie before a proof is verified, and entries in a proof
\* a verifier is given.
MaxProofOps == 2
MaxProofLen == 2

\* Callers that use one trie instance concurrently (each issues one call),
\* and operations in a batch one of them issues.
NumCallers == 2
MaxConcBatchLen == 2

\* Calls issued in turn on a trie and on its copy, copy() and assignments to
\* root included.
MaxCopyOps == 4

\* Length in bytes of the long value (a leaf holding it serialises to >= 32
\* bytes and is stored under its hash; a leaf holding the short value is
\* embedded in its parent).
LongValueLen == 32

\* Length in bytes of a digest.
HashLen == 32

\* ------------------------------------------------------------------ items

Buf(b) == [kind |-> "bytes", of |-> b]
Hash(x) == [kind |-> "hash", of |-> x]
Lst(s) == [kind |-> "list", of |-> s]

null == <<>>
EmptyBuf == Buf(<<>>)

Front(s) == SubSeq(s, 1, Len(s) - 1)
Last(s) == s[Len(s)]
Min(a, b) == IF a < b THEN a ELSE b
Max(a, b) == IF a < b THEN b ELSE a

\* RLP_EMPTY_STRING, the encoding of the empty byte string.
RLP_EMPTY_STRING == EmptyBuf

\* Bytes needed to write the length n in an RLP long-form header.
lengthOfLength(n) == IF n < 256 THEN 1 ELSE IF n < 65536 THEN 2 ELSE 3

RECURSIVE encodedLength(_)
RECURSIVE SumEncodedLength(_)

\* Length of the RLP encoding of a sequence of items laid end to end.
SumEncodedLength(s) ==
    IF s = <<>> THEN 0 ELSE encodedLength(Head(s)) + SumEncodedLength(Tail(s))

\* Length in bytes of RLP.encode(item).
encodedLength(x) ==
    IF x.kind = "bytes"
      THEN LET n == Len(x.of)
           IN  IF n = 1 /\ x.of[1] < 128 THEN 1
               ELSE IF n <= 55 THEN 1 + n
               ELSE 1 + lengthOfLength(n) + n
    ELSE IF x.kind = "hash"
      THEN 33
    ELSE LET p == SumEncodedLength(x.of)
         IN  IF p <= 55 THEN 1 + p ELSE 1 + lengthOfLength(p) + p

\* ---------------------------------------------------------------- nibbles

bufferToNibbles(b) ==
    [i \in 1..(2 * Len(b)) |->
        IF i % 2 = 1 THEN b[(i + 1) \div 2] \div 16 ELSE b[i \div 2] % 16]

nibblesToBuffer(n) ==
    [i \in 1..(Len(n) \div 2) |-> n[2 * i - 1] * 16 + n[2 * i]]

matchingNibbleLength(a, b) ==
    Cardinality({i \in 1..Min(Len(a), Len(b)) : \A j \in 1..i : a[j] = b[j]})

doKeysMatch(a, b) ==
    LET length == matchingNibbleLength(a, b)
    IN  length = Len(a) /\ length = Len(b)

\* Hex-prefix encoding of a nibble path: the flag nibble carries the
\* terminator bit (2) and the odd-length bit (1); an even path gets a zero
\* padding nibble after the flag.
addHexPrefix(key, terminator) ==
    LET odd == Len(key) % 2 = 1
        flag == (IF terminator THEN 2 ELSE 0) + (IF odd THEN 1 ELSE 0)
    IN  IF odd THEN <<flag>> \o key ELSE <<flag, 0>> \o key

removeHexPrefix(hex) ==
    IF hex[1] % 2 = 1 THEN SubSeq(hex, 2, Len(hex)) ELSE SubSeq(hex, 3, Len(hex))

isTerminator(hex) == hex[1] > 1

\* ------------------------------------------------------------------ nodes

NoNode == [type |-> "none"]

LeafNode(nibbles, value) == [type |-> "leaf", key |-> nibbles, value |-> value]

ExtensionNode(nibbles, value) == [type |-> "ext", key |-> nibbles, value |-> value]

BranchNode == [type |-> "branch", branches |-> [i \in 0..15 |-> EmptyBuf], value |-> null]

isLeaf(n) == n.type = "leaf"
isExtension(n) == n.type = "ext"
isBranch(n) == n.type = "branch"

\* BranchNode.setBranch(i, v); v = null is the empty buffer.  An index that is
\* no nibble (key.pop() of an empty array is undefined) sets no child.
setBranch(node, i, v) ==
    IF i \in 0..15 THEN [node EXCEPT !.branches[i] = v] ELSE node

\* BranchNode.getBranch(i): the child reference, EmptyBuf when there is none.
getBranch(node, i) == node.branches[i]

hasBranch(node, i) == node.branches[i] # EmptyBuf

\* BranchNode.getChildren(): the non-empty children with their indices, in
\* index order.  The branch's own value is not a child.
RECURSIVE ChildrenFrom(_, _)
ChildrenFrom(node, i) ==
    IF i > 15 THEN <<>>
    ELSE (IF hasBranch(node, i) THEN <<<<i, node.branches[i]>>>> ELSE <<>>)
         \o ChildrenFrom(node, i + 1)

getChildren(node) == ChildrenFrom(node, 0)

\* node.raw(): the list of items the node serialises as.
raw(node) ==
    IF isLeaf(node)
      THEN <<Buf(nibblesToBuffer(addHexPrefix(node.key, TRUE))), Buf(node.value)>>
    ELSE IF isExtension(node)
      THEN <<Buf(nibblesToBuffer(addHexPrefix(node.key, FALSE))), node.value>>
    ELSE [i \in 1..17 |-> IF i <= 16 THEN node.branches[i - 1] ELSE Buf(node.value)]

\* node.serialize(): RLP.encode(node.raw()).
serialize(node) == Lst(raw(node))

\* isRawNode(ref): an embedded node is an array, a hash is a Buffer.
isRawNode(ref) == ref.kind = "list"

\* decodeRawNode(raw): 17 items make a branch; two items make a leaf or an
\* extension according to the terminator bit of the hex-prefixed key.
decodeRawNode(r) ==
    IF Len(r) = 17
      THEN [type |-> "branch",
            branches |-> [i \in 0..15 |-> r[i + 1]],
            value |-> r[17].of]
    ELSE LET nibbles == bufferToNibbles(r[1].of)
         IN  IF isTerminator(nibbles)
               THEN LeafNode(removeHexPrefix(nibbles), r[2].of)
               ELSE ExtensionNode(removeHexPrefix(nibbles), r[2])

\* decodeNode(bytes): decodeRawNode(RLP.decode(bytes)).
decodeNode(encoded) == decodeRawNode(encoded.of)

\* ------------------------------------------------------------------ state

VARIABLES
    root,          \* Trie._root
    db,            \* Trie.db: the key-value store, a function from keys to values
    deleteFromDB,  \* Trie._deleteFromDB (constructor option)
    persistRoot,   \* Trie._persistRoot (constructor option)
    useHashedKeys, \* Trie._useHashedKeys (constructor option)
    lockFree,      \* Trie.lock: TRUE while the semaphore's one permit is available
    lastOp,        \* history: the last call, its arguments and how it ended
    prevOp,        \* history: the call before the last one
    prev,          \* history: the trie (root and store) when the last call started
    prev2,         \* history: the root when the call before the last one started
    written,       \* history: key -> the value last put and not deleted since
    lastBatch,     \* history: the operations of the last batch call
    proofCall,     \* history: the last verifyProof call and what it gave
    callers,       \* concurrent callers: where each is in its call, and the call
    waiters,       \* Trie.lock: the callers whose wait() has not resolved, oldest first
    inflight,      \* the mutation that holds the lock: the trie before it and its result
    serial,        \* history: the trie got by running the calls in the order they got the lock
    lastRead,      \* history: the get a concurrent reader made
    copied,        \* the trie copy() returned: its _root and its own lock
    opsLeft        \* calls the caller still issues

vars == <<root, db, deleteFromDB, persistRoot, useHashedKeys, lockFree,
          lastOp, prevOp, prev, prev2, written, lastBatch, proofCall,
          callers, waiters, inflight, serial, lastRead, copied, opsLeft>>

concVars == <<callers, waiters, inflight, serial, lastRead>>

\* ------------------------------------------------------------------ store

\* The reserved store key under which the root is persisted.
ROOT_DB_KEY == <<95, 95, 114, 111, 111, 116, 95, 95>>

\* Trie.hash(msg): the digest of a Buffer, named by the item the Buffer encodes.
hash(msg) == Hash(msg)

EMPTY_TRIE_ROOT == hash(RLP_EMPTY_STRING)

\* The digest the hashed-keys function gives for a key, as bytes: a stand-in
\* for keccak256 that is injective on the keys used and, like it, gives
\* HashLen bytes.
keyDigest(key) ==
    [i \in 1..HashLen |->
        IF i <= Len(key) THEN (key[i] + 7 * i) % 256 ELSE (16 * Len(key) + i) % 256]

\* An appliedKey that hashes a key already hashed.
appliedKeyTwice(key) == IF useHashedKeys THEN keyDigest(keyDigest(key)) ELSE key

\* Trie.appliedKey(key): the key itself, or its digest when keys are hashed.
appliedKey(key) == IF useHashedKeys THEN keyDigest(key) ELSE key

\* A trie is the pair of its root and its store.
TrieOf(r, d) == [root |-> r, db |-> d]

dbHas(d, k) == k \in DOMAIN d

dbPut(d, k, v) == [x \in DOMAIN d \cup {k} |-> IF x = k THEN v ELSE d[x]]

dbDel(d, k) == [x \in DOMAIN d \ {k} |-> d[x]]

PutOp(k, v) == [type |-> "put", key |-> k, value |-> v]
DelOp(k) == [type |-> "del", key |-> k, value |-> EmptyBuf]

\* db.batch(opStack): the operations applied in order.
RECURSIVE dbBatch(_, _)
dbBatch(d, ops) ==
    IF ops = <<>> THEN d
    ELSE dbBatch(IF Head(ops).type = "put"
                   THEN dbPut(d, Head(ops).key, Head(ops).value)
                   ELSE dbDel(d, Head(ops).key),
                 Tail(ops))

\* Trie.persistRoot(): the store after it.
PersistRoot(r, d) ==
    IF persistRoot THEN dbPut(d, Buf(appliedKey(ROOT_DB_KEY)), r) ELSE d

\* Trie.lookupNode(ref): an embedded node is decoded in place, a hash is
\* fetched from the store; ok = FALSE stands for 'Missing node in DB'.
lookupNode(d, ref) ==
    IF isRawNode(ref) THEN [ok |-> TRUE, node |-> decodeRawNode(ref.of)]
    ELSE IF dbHas(d, ref) THEN [ok |-> TRUE, node |-> decodeNode(d[ref])]
    ELSE [ok |-> FALSE, node |-> NoNode]

\* --------------------------------------------------------------- findPath

Path(node, remaining, stack, err) ==
    [node |-> node, remaining |-> remaining, stack |-> stack, err |-> err]

\* The walk of findPath.  walkTrie loads nodeRef and hands the node to onFound;
\* a missing node ends the walk, and findPath then resolves with a null node,
\* an EMPTY remainder and the stack built so far, or rejects when
\* throwIfMissing.  onFound pushes the node and either resolves or asks for
\* the one child to follow.
RECURSIVE walkTrie(_, _, _, _, _, _)
RECURSIVE onFound(_, _, _, _, _, _)

walkTrie(d, nodeRef, keyProgress, stack0, targetKey, throwIfMissing) ==
    LET found == lookupNode(d, nodeRef)
    IN  IF found.ok
          THEN onFound(d, found.node, keyProgress, stack0, targetKey, throwIfMissing)
        ELSE IF throwIfMissing
          THEN Path(NoNode, <<>>, stack0, "Missing node in DB")
        ELSE Path(NoNode, <<>>, stack0, "")

onFound(d, node, keyProgress, stack0, targetKey, throwIfMissing) ==
    LET keyRemainder ==
            SubSeq(targetKey, matchingNibbleLength(keyProgress, targetKey) + 1,
                   Len(targetKey))
        stack == Append(stack0, node)
    IN  IF isBranch(node)
          THEN IF keyRemainder = <<>>
                 THEN Path(node, <<>>, stack, "")
               ELSE IF ~hasBranch(node, keyRemainder[1])
                 THEN Path(NoNode, keyRemainder, stack, "")
               ELSE walkTrie(d, getBranch(node, keyRemainder[1]),
                             Append(keyProgress, keyRemainder[1]),
                             stack, targetKey, throwIfMissing)
        ELSE IF isLeaf(node)
          THEN IF doKeysMatch(keyRemainder, node.key)
                 THEN Path(node, <<>>, stack, "")
                 ELSE Path(NoNode, keyRemainder, stack, "")
        ELSE IF matchingNibbleLength(keyRemainder, node.key) # Len(node.key)
          THEN Path(NoNode, keyRemainder, stack, "")
        ELSE walkTrie(d, node.value, keyProgress \o node.key,
                      stack, targetKey, throwIfMissing)

\* Trie.findPath(key, throwIfMissing).
findPath(t, key, throwIfMissing) ==
    walkTrie(t.db, t.root, <<>>, <<>>, bufferToNibbles(key), throwIfMissing)

\* The value Trie.get returns for the path findPath resolved with.
valueAt(p) == IF p.node # NoNode /\ p.remaining = <<>> THEN p.node.value ELSE null

\* Trie.get(key): the value, null when there is none.
get(t, key) == valueAt(findPath(t, appliedKey(key), FALSE))

\* -------------------------------------------------------------- mutations

\* What a mutation leaves behind: the root, the store and the error it threw
\* ("" when it returned).
Result(r, d, err) == [root |-> r, db |-> d, err |-> err]

\* Array.prototype.splice(key.length - n) on a nibble path: the path with its
\* last n nibbles removed (a negative start counts from the end of the array).
spliceTail(key, n) ==
    LET start == Len(key) - n
        from == IF start < 0 THEN Max(Len(key) + start, 0) ELSE start
    IN  SubSeq(key, 1, from)

\* A _formatNode that takes a removed node out of the store whatever the
\* deleteFromDB option says.
formatHashedAlwaysDeletes(hashRoot, encoded, opStack, remove) ==
    [ref |-> hashRoot,
     ops |-> IF remove
               THEN Append(opStack, DelOp(hashRoot))
               ELSE Append(opStack, PutOp(hashRoot, encoded))]

\* The hashed case of _formatNode: the node is put into the store under its
\* hash, or taken out of it when remove is set and the trie deletes from the
\* store.
formatHashed(hashRoot, encoded, opStack, remove) ==
    [ref |-> hashRoot,
     ops |-> IF remove
               THEN IF deleteFromDB THEN Append(opStack, DelOp(hashRoot)) ELSE opStack
               ELSE Append(opStack, PutOp(hashRoot, encoded))]

\* Trie._formatNode(node, topLevel, opStack, remove): the reference to use for
\* the node (its hash, or the node itself when it serialises to fewer than 32
\* bytes and is not the top level) and the opStack after it.
FormatNode(node, topLevel, opStack, remove) ==
    LET encoded == serialize(node)
    IN  IF encodedLength(encoded) >= 32 \/ topLevel
          THEN formatHashed(hash(encoded), encoded, opStack, remove)
          ELSE [ref |-> Lst(raw(node)), ops |-> opStack]

\* lastRoot of _saveStack before any node is formatted.
undefined == [kind |-> "undefined", of |-> <<>>]

\* The loop of _saveStack: nodes are popped from the end of the stack; a leaf
\* or an extension takes its key off the end of the path, an extension or a
\* branch is pointed at the reference of the node formatted before it.  last
\* holds lastRoot (ref) and the opStack (ops).
RECURSIVE saveStackLoop(_, _, _)
saveStackLoop(key, stack, last) ==
    IF stack = <<>> THEN last
    ELSE
      LET node == Last(stack)
          hasLast == last.ref # undefined
          key1 == IF isBranch(node)
                    THEN IF hasLast THEN Front(key) ELSE key
                    ELSE spliceTail(key, Len(node.key))
          node1 == IF ~hasLast THEN node
                   ELSE IF isExtension(node) THEN [node EXCEPT !.value = last.ref]
                   ELSE IF isBranch(node)
                     THEN setBranch(node, IF key = <<>> THEN -1 ELSE Last(key), last.ref)
                   ELSE node
      IN  saveStackLoop(key1, Front(stack),
                        FormatNode(node1, Len(stack) = 1, last.ops, FALSE))

\* The end of _saveStack: the last reference becomes the root, the batch is
\* written, the root is persisted.
saveRoot(t, last) ==
    LET newRoot == IF last.ref # undefined THEN last.ref ELSE t.root
    IN  Result(newRoot, PersistRoot(newRoot, dbBatch(t.db, last.ops)), "")

\* Trie._saveStack(key, stack, opStack).
SaveStack(t, key, stack, opStack) ==
    saveRoot(t, saveStackLoop(key, stack, [ref |-> undefined, ops |-> opStack]))

\* Trie._createInitialNode(key, value).
CreateInitialNode(t, key, value) ==
    LET newNode == LeafNode(bufferToNibbles(key), value)
        encoded == serialize(newNode)
        newRoot == hash(encoded)
    IN  Result(newRoot, PersistRoot(newRoot, dbPut(t.db, newRoot, encoded)), "")

\* The nibbles the nodes of a stack consume: one per branch, the key's length
\* per extension or leaf.
RECURSIVE stackKeyLength(_)
stackKeyLength(stack) ==
    IF stack = <<>> THEN 0
    ELSE (IF isBranch(Head(stack)) THEN 1 ELSE Len(Head(stack).key))
         + stackKeyLength(Tail(stack))

\* SplitNode with the value of a leaf whose key is used up left behind: the
\* new branch does not take it.
SplitNodeDropsValue(t, key, value, keyRemainder0, stack, lastNode) ==
    LET lastKey0 == lastNode.key
        matchingLength == matchingNibbleLength(lastKey0, keyRemainder0)
        stack1 == IF matchingLength # 0
                    THEN Append(stack,
                                ExtensionNode(SubSeq(lastKey0, 1, matchingLength),
                                              Buf(value)))
                    ELSE stack
        lastKey == SubSeq(lastKey0, matchingLength + 1, Len(lastKey0))
        keyRemainder == SubSeq(keyRemainder0, matchingLength + 1, Len(keyRemainder0))
        shrunk == [lastNode EXCEPT !.key = Tail(lastKey)]
        keep == Tail(lastKey) # <<>> \/ isLeaf(lastNode)
        f == IF lastKey = <<>> THEN [ref |-> EmptyBuf, ops |-> <<>>]
             ELSE IF keep THEN FormatNode(shrunk, FALSE, <<>>, FALSE)
             ELSE FormatNode(lastNode, FALSE, <<>>, TRUE)
        branch1 == IF lastKey = <<>> THEN BranchNode
                   ELSE IF keep THEN setBranch(BranchNode, Head(lastKey), f.ref)
                   ELSE setBranch(BranchNode, Head(lastKey), lastNode.value)
        branch2 == IF keyRemainder # <<>> THEN branch1
                   ELSE [branch1 EXCEPT !.value = value]
        stack2 == IF keyRemainder # <<>>
                    THEN stack1 \o <<branch2, LeafNode(Tail(keyRemainder), value)>>
                    ELSE Append(stack1, branch2)
    IN  SaveStack(t, key, stack2, f.ops)

\* SplitNode with the extension pushed even when the two keys share no nibble.
SplitNodeAlwaysExtends(t, key, value, keyRemainder0, stack, lastNode) ==
    LET lastKey0 == lastNode.key
        matchingLength == matchingNibbleLength(lastKey0, keyRemainder0)
        stack1 == Append(stack,
                         ExtensionNode(SubSeq(lastKey0, 1, matchingLength),
                                       Buf(value)))
        lastKey == SubSeq(lastKey0, matchingLength + 1, Len(lastKey0))
        keyRemainder == SubSeq(keyRemainder0, matchingLength + 1, Len(keyRemainder0))
        shrunk == [lastNode EXCEPT !.key = Tail(lastKey)]
        keep == Tail(lastKey) # <<>> \/ isLeaf(lastNode)
        f == IF lastKey = <<>> THEN [ref |-> EmptyBuf, ops |-> <<>>]
             ELSE IF keep THEN FormatNode(shrunk, FALSE, <<>>, FALSE)
             ELSE FormatNode(lastNode, FALSE, <<>>, TRUE)
        branch1 == IF lastKey = <<>>
                     THEN [BranchNode EXCEPT !.value = lastNode.value]
                   ELSE IF keep THEN setBranch(BranchNode, Head(lastKey), f.ref)
                   ELSE setBranch(BranchNode, Head(lastKey), lastNode.value)
        branch2 == IF keyRemainder # <<>> THEN branch1
                   ELSE [branch1 EXCEPT !.value = value]
        stack2 == IF keyRemainder # <<>>
                    THEN stack1 \o <<branch2, LeafNode(Tail(keyRemainder), value)>>
                    ELSE Append(stack1, branch2)
    IN  SaveStack(t, key, stack2, f.ops)

\* The last case of _updateNode: the last node is a leaf or an extension whose
\* key diverges from the rest of the key, and a branch is put in its place.
SplitNode(t, key, value, keyRemainder0, stack, lastNode) ==
    LET lastKey0 == lastNode.key
        matchingLength == matchingNibbleLength(lastKey0, keyRemainder0)
        stack1 == IF matchingLength # 0
                    THEN Append(stack,
                                ExtensionNode(SubSeq(lastKey0, 1, matchingLength),
                                              Buf(value)))
                    ELSE stack
        lastKey == SubSeq(lastKey0, matchingLength + 1, Len(lastKey0))
        keyRemainder == SubSeq(keyRemainder0, matchingLength + 1, Len(keyRemainder0))
        shrunk == [lastNode EXCEPT !.key = Tail(lastKey)]
        keep == Tail(lastKey) # <<>> \/ isLeaf(lastNode)
        f == IF lastKey = <<>> THEN [ref |-> EmptyBuf, ops |-> <<>>]
             ELSE IF keep THEN FormatNode(shrunk, FALSE, <<>>, FALSE)
             ELSE FormatNode(lastNode, FALSE, <<>>, TRUE)
        branch1 == IF lastKey = <<>>
                     THEN [BranchNode EXCEPT !.value = lastNode.value]
                   ELSE IF keep THEN setBranch(BranchNode, Head(lastKey), f.ref)
                   ELSE setBranch(BranchNode, Head(lastKey), lastNode.value)
        branch2 == IF keyRemainder # <<>> THEN branch1
                   ELSE [branch1 EXCEPT !.value = value]
        stack2 == IF keyRemainder # <<>>
                    THEN stack1 \o <<branch2, LeafNode(Tail(keyRemainder), value)>>
                    ELSE Append(stack1, branch2)
    IN  SaveStack(t, key, stack2, f.ops)

\* _updateNode without its first case: a leaf found under the whole key is
\* split like any other leaf instead of having its value replaced.
UpdateNodeNoOverwrite(t, k, value, keyRemainder, stack0) ==
    IF stack0 = <<>> THEN Result(t.root, t.db, "Stack underflow")
    ELSE
      LET lastNode == Last(stack0)
          stack == Front(stack0)
          key == bufferToNibbles(k)
      IN  IF isBranch(lastNode)
            THEN IF keyRemainder # <<>>
                   THEN SaveStack(t, key,
                                  stack \o <<lastNode, LeafNode(Tail(keyRemainder), value)>>,
                                  <<>>)
                   ELSE SaveStack(t, key,
                                  Append(stack, [lastNode EXCEPT !.value = value]), <<>>)
          ELSE SplitNode(t, key, value, keyRemainder, stack, lastNode)

\* Trie._updateNode(k, value, keyRemainder, stack).
UpdateNode(t, k, value, keyRemainder, stack0) ==
    IF stack0 = <<>> THEN Result(t.root, t.db, "Stack underflow")
    ELSE
      LET lastNode == Last(stack0)
          stack == Front(stack0)
          key == bufferToNibbles(k)
          l == stackKeyLength(stack)
          matchLeaf ==
              /\ isLeaf(lastNode)
              /\ matchingNibbleLength(lastNode.key, SubSeq(key, l + 1, Len(key)))
                   = Len(lastNode.key)
              /\ keyRemainder = <<>>
      IN  IF matchLeaf
            THEN SaveStack(t, key, Append(stack, [lastNode EXCEPT !.value = value]), <<>>)
          ELSE IF isBranch(lastNode)
            THEN IF keyRemainder # <<>>
                   THEN SaveStack(t, key,
                                  stack \o <<lastNode, LeafNode(Tail(keyRemainder), value)>>,
                                  <<>>)
                   ELSE SaveStack(t, key,
                                  Append(stack, [lastNode EXCEPT !.value = value]), <<>>)
          ELSE SplitNode(t, key, value, keyRemainder, stack, lastNode)

\* processBranchNode of _deleteNode: the one node left on a branch takes the
\* branch's place.  key is the path to the branch, branchKey the index of the
\* node left, branchNode that node, parentNode the branch's parent (hasParent
\* says whether there is one), stack the nodes above the parent.  Gives the
\* path and the stack to save.
processBranchNode(key, branchKey, branchNode, hasParent, parentNode, stack) ==
    IF ~hasParent \/ isBranch(parentNode)
      THEN LET stack1 == IF hasParent THEN Append(stack, parentNode) ELSE stack
           IN  IF isBranch(branchNode)
                 THEN [key |-> Append(key, branchKey),
                       stack |-> stack1 \o <<ExtensionNode(<<branchKey>>, EmptyBuf),
                                              branchNode>>]
                 ELSE LET branchNodeKey == <<branchKey>> \o branchNode.key
                      IN  [key |-> key \o branchNodeKey,
                           stack |-> Append(stack1,
                                            [branchNode EXCEPT !.key = branchNodeKey])]
      ELSE IF isBranch(branchNode)
             THEN [key |-> Append(key, branchKey),
                   stack |-> stack \o <<[parentNode EXCEPT
                                            !.key = Append(parentNode.key, branchKey)],
                                        branchNode>>]
             ELSE LET branchNodeKey == <<branchKey>> \o branchNode.key
                  IN  [key |-> key \o branchNodeKey,
                       stack |-> Append(stack,
                                        [branchNode EXCEPT
                                            !.key = parentNode.key \o branchNodeKey])]

\* The second half of _deleteNode: lastNode is the branch a value or a child
\* was taken from, key the path to it.  A branch left with exactly one child
\* is collapsed; any other branch is saved as it is.
RepairBranch(t, key, lastNode, hasParent, parentNode, stack, opStack) ==
    LET branchNodes == getChildren(lastNode)
    IN  IF Len(branchNodes) = 1
          THEN LET found == lookupNode(t.db, branchNodes[1][2])
               IN  IF ~found.ok THEN Result(t.root, t.db, "Missing node in DB")
                   ELSE LET p == processBranchNode(key, branchNodes[1][1], found.node,
                                                   hasParent, parentNode, stack)
                        IN  SaveStack(t, p.key, p.stack, opStack)
          ELSE SaveStack(t, key,
                         (IF hasParent THEN Append(stack, parentNode) ELSE stack)
                            \o <<lastNode>>,
                         opStack)

\* Trie._deleteNode(k, stack).
DeleteNode(t, k, stack0) ==
    IF stack0 = <<>> THEN Result(t.root, t.db, "missing last node")
    ELSE IF Len(stack0) = 1 THEN Result(EMPTY_TRIE_ROOT, t.db, "")
    ELSE
      LET lastNode == Last(stack0)
          parentNode == stack0[Len(stack0) - 1]
          stack == SubSeq(stack0, 1, Len(stack0) - 2)
          key == bufferToNibbles(k)
      IN  IF isBranch(lastNode)
            THEN RepairBranch(t, key, [lastNode EXCEPT !.value = null],
                              TRUE, parentNode, stack, <<>>)
          ELSE IF ~isBranch(parentNode)
            THEN Result(t.root, t.db, "Expected branch node")
          ELSE
            LET key1 == spliceTail(key, Len(lastNode.key))
                f == FormatNode(lastNode, FALSE, <<>>, TRUE)
                branch == setBranch(parentNode,
                                    IF key1 = <<>> THEN -1 ELSE Last(key1), EmptyBuf)
            IN  RepairBranch(t, Front(key1), branch,
                             stack # <<>>,
                             IF stack # <<>> THEN Last(stack) ELSE NoNode,
                             Front(stack), f.ops)

\* The end of put and of del: an error is thrown on; otherwise persistRoot()
\* runs on what the body left.
persisted(r) == IF r.err # "" THEN r ELSE Result(r.root, PersistRoot(r.root, r.db), "")

\* del after findPath has resolved with p: a found node is deleted.
deleteFound(t, key, p) ==
    IF p.node # NoNode THEN DeleteNode(t, appliedKey(key), p.stack)
    ELSE Result(t.root, t.db, "")

\* Trie.del(key) once the lock is held.
DelLocked(t, key) == persisted(deleteFound(t, key, findPath(t, appliedKey(key), FALSE)))

\* Trie.del(key).
del(t, key) == DelLocked(t, key)

\* put on a non-empty trie after findPath has resolved with p.
updateFound(t, key, value, p) ==
    UpdateNode(t, appliedKey(key), value, p.remaining, p.stack)

\* Trie.put(key, value) past its two early exits: the body run with the lock.
PutLocked(t, key, value) ==
    persisted(IF t.root = EMPTY_TRIE_ROOT
                THEN CreateInitialNode(t, appliedKey(key), value)
                ELSE updateFound(t, key, value, findPath(t, appliedKey(key), FALSE)))

ReservedKeyError == "Attempted to set '__root__' key but it is not allowed."

\* The first test of put: the key is the reserved one and the root is persisted.
isReserved(key) == persistRoot /\ key = ROOT_DB_KEY

\* Trie.put(key, value): the reserved key is refused, an empty value deletes.
put(t, key, value) ==
    IF isReserved(key) THEN Result(t.root, t.db, ReservedKeyError)
    ELSE IF value = <<>> THEN del(t, key)
    ELSE PutLocked(t, key, value)

\* Trie.put(key, value) past its early exits on a trie that does not hash
\* its keys (appliedKey gives the key back), the root not yet persisted.
putUnhashed(t, key, value) ==
    IF t.root = EMPTY_TRIE_ROOT
      THEN CreateInitialNode(t, key, value)
      ELSE LET p == findPath(t, key, FALSE)
           IN  UpdateNode(t, key, value, p.remaining, p.stack)

\* Trie.del(key) on a trie that does not hash its keys, the root not yet
\* persisted.
delUnhashed(t, key) ==
    LET p == findPath(t, key, FALSE)
    IN  IF p.node # NoNode THEN DeleteNode(t, key, p.stack)
        ELSE Result(t.root, t.db, "")

InvalidBatchError == "Invalid batch db operation"

\* An operation of a batch.  hasValue is FALSE for a put whose value is
\* undefined or null; a Buffer, empty or not, is a value.
BatchPut(key, value) == [type |-> "put", key |-> key, value |-> value, hasValue |-> TRUE]
BatchPutNoValue(key) == [type |-> "put", key |-> key, value |-> <<>>, hasValue |-> FALSE]
BatchDel(key) == [type |-> "del", key |-> key, value |-> <<>>, hasValue |-> FALSE]

\* One operation of Trie.batch applied to trie t: a put without a value
\* throws, any other put goes to put, a del to del.
batchOp(t, op) ==
    IF op.type = "put"
      THEN IF ~op.hasValue THEN Result(t.root, t.db, InvalidBatchError)
           ELSE put(t, op.key, op.value)
      ELSE del(t, op.key)

\* The loop of Trie.batch from the state result r has left: the operations
\* are awaited one after the other, the first error ends the batch, and the
\* root is persisted once more after the last operation.
RECURSIVE batchLoop(_, _)
batchLoop(r, ops) ==
    IF r.err # "" THEN r
    ELSE IF ops = <<>> THEN Result(r.root, PersistRoot(r.root, r.db), "")
    ELSE batchLoop(batchOp(TrieOf(r.root, r.db), Head(ops)), Tail(ops))

\* Trie.batch(ops).
batch(t, ops) == batchLoop(Result(t.root, t.db, ""), ops)

\* ----------------------------------------------------------------- proofs

\* Trie.createProof(key): the nodes on the path of the key, serialised, the
\* root's first.
createProof(t, key) ==
    LET stack == findPath(t, appliedKey(key), FALSE).stack
    IN  [i \in 1..Len(stack) |-> serialize(stack[i])]

\* new Trie({ root: rootHash }) as verifyProof constructs it: an empty store
\* of its own, no hashed keys, no persisted root.  ownEmpty says that _root
\* is the instance's own EMPTY_TRIE_ROOT Buffer, which is the case only when
\* no root is given.
ProofTrie(rootHash) ==
    IF rootHash = undefined
      THEN [root |-> EMPTY_TRIE_ROOT, db |-> <<>>, ownEmpty |-> TRUE]
      ELSE [root |-> rootHash, db |-> <<>>, ownEmpty |-> FALSE]

\* The opStack of fromProof: every proof entry is put under its hash.
proofOps(proof) == [i \in 1..Len(proof) |-> PutOp(hash(proof[i]), proof[i])]

\* fromProof with the root compared to EMPTY_TRIE_ROOT byte by byte: an empty
\* root that was given is replaced like one that was not.
fromProofRootByValue(pt, proof) ==
    LET opStack == proofOps(proof)
    IN  [root |-> IF pt.root = EMPTY_TRIE_ROOT /\ opStack # <<>>
                    THEN opStack[1].key ELSE pt.root,
         db |-> dbBatch(pt.db, opStack),
         ownEmpty |-> FALSE]

\* Trie.fromProof(proof) on the trie pt: the first entry's hash becomes the
\* root when the root is (===) the instance's EMPTY_TRIE_ROOT, and the
\* entries are written to the store.
fromProof(pt, proof) ==
    LET opStack == proofOps(proof)
    IN  [root |-> IF pt.ownEmpty /\ opStack # <<>> THEN opStack[1].key ELSE pt.root,
         db |-> dbBatch(pt.db, opStack),
         ownEmpty |-> pt.ownEmpty /\ opStack = <<>>]

InvalidProofError == "Invalid proof provided"

\* What verifyProof gives for the path its get resolved or rejected with;
\* proofRoot is the root the proof trie had during the get.
proofResult(proofRoot, p) ==
    IF p.err = "Missing node in DB"
      THEN [value |-> null, err |-> InvalidProofError, proofRoot |-> proofRoot]
      ELSE [value |-> valueAt(p), err |-> p.err, proofRoot |-> proofRoot]

\* The get of verifyProof on the proof trie pt: the key is the caller's
\* applied key, the proof trie itself does not hash keys, and missing nodes
\* are thrown.
proofGet(pt, key) ==
    proofResult(pt.root, findPath(TrieOf(pt.root, pt.db), appliedKey(key), TRUE))

\* Trie.verifyProof(rootHash, key, proof).
verifyProof(rootHash, key, proof) ==
    proofGet(fromProof(ProofTrie(rootHash), proof), key)

\* ----------------------------------------------------------------- inputs

\* The keys callers use: the empty key, keys that share a first nibble or a
\* first byte, a key that extends another, a key on another first nibble, and
\* the reserved key.
Keys == {<<>>, <<17>>, <<18>>, <<33>>, <<17, 33>>, ROOT_DB_KEY}

ShortValue == <<1>>
LongValue == [i \in 1..LongValueLen |-> 2]

\* The values callers put; the empty value asks for a delete.
Values == {ShortValue, LongValue}

\* The keys in a fixed order, for building a trie from a mapping.
KeyOrder == <<ROOT_DB_KEY, <<33>>, <<18>>, <<17, 33>>, <<17>>, <<>>>>

\* The trie got by putting the pairs of mapping w into trie t, keys taken in
\* KeyOrder from position i on.
RECURSIVE buildFrom(_, _, _)
buildFrom(t, w, i) ==
    IF i > Len(KeyOrder) THEN t
    ELSE IF w[KeyOrder[i]] = null THEN buildFrom(t, w, i + 1)
    ELSE CHOOSE built \in {buildFrom(TrieOf(r.root, r.db), w, i + 1) :
                               r \in {put(t, KeyOrder[i], w[KeyOrder[i]])}} : TRUE

\* ---------------------------------------------------------------- actions

\* The callers of a trie used concurrently.
Callers == 1..NumCallers

\* A caller that has not called yet.
Idle ==
    [pc |-> "idle", type |-> "none", key |-> <<>>, value |-> <<>>, ops |-> <<>>,
     inBatch |-> FALSE, opsDone |-> 0, waited |-> FALSE, err |-> ""]

NoInflight ==
    [caller |-> 0, pre |-> TrieOf(EMPTY_TRIE_ROOT, <<>>),
     post |-> Result(EMPTY_TRIE_ROOT, <<>>, "")]

NoRead ==
    [kind |-> "none", key |-> <<>>, value |-> null, during |-> FALSE,
     pre |-> null, post |-> null]

\* A trie with one caller at a time: nobody waits, nothing is in flight.
NoConcurrency ==
    /\ callers = [c \in Callers |-> Idle]
    /\ waiters = <<>>
    /\ inflight = NoInflight
    /\ serial = TrieOf(EMPTY_TRIE_ROOT, <<>>)
    /\ lastRead = NoRead

\* No copy() has been called.
NoCopy == [made |-> FALSE, root |-> EMPTY_TRIE_ROOT, lockFree |-> TRUE]

NoProofCall ==
    [kind |-> "none", rootHash |-> undefined, key |-> <<>>, proof |-> <<>>,
     value |-> null, err |-> "", proofRoot |-> undefined]

NoOp ==
    [type |-> "none", key |-> <<>>, value |-> <<>>, err |-> "",
     fresh |-> TRUE, plain |-> TRUE]

Init ==
    /\ root = EMPTY_TRIE_ROOT
    /\ db = <<>>
    /\ deleteFromDB \in BOOLEAN
    /\ persistRoot \in BOOLEAN
    /\ useHashedKeys = FALSE
    /\ lastBatch = <<>>
    /\ proofCall = NoProofCall
    /\ NoConcurrency
    /\ copied = NoCopy
    /\ lockFree = TRUE
    /\ lastOp = NoOp
    /\ prevOp = NoOp
    /\ prev = TrieOf(EMPTY_TRIE_ROOT, <<>>)
    /\ prev2 = EMPTY_TRIE_ROOT
    /\ written = [k \in Keys |-> null]
    /\ opsLeft = MaxOps

\* A call that ended with result r: the state it leaves.  An error thrown
\* while the lock is held leaves it held (no signal() is reached).  written
\* follows the calls that returned; fresh stays TRUE as long as every call so
\* far was a put of a non-empty value under a key not put before; plain stays
\* TRUE as long as no call was a put of the empty value.
Finish(type, key, value, r, locked) ==
    /\ root' = r.root
    /\ db' = r.db
    /\ lockFree' = (lockFree /\ (r.err = "" \/ ~locked))
    /\ lastOp' = [type |-> type, key |-> key, value |-> value, err |-> r.err,
                  fresh |-> /\ lastOp.fresh
                            /\ type = "put" /\ value # <<>> /\ r.err = ""
                            /\ written[key] = null,
                  plain |-> lastOp.plain /\ ~(type = "put" /\ value = <<>>)]
    /\ prevOp' = lastOp
    /\ prev' = TrieOf(root, db)
    /\ prev2' = prev.root
    /\ written' = IF r.err = "" THEN [written EXCEPT ![key] = value] ELSE written
    /\ opsLeft' = opsLeft - 1
    /\ UNCHANGED <<deleteFromDB, persistRoot, useHashedKeys, lastBatch, proofCall>>
    /\ UNCHANGED <<concVars, copied>>

\* await trie.put(key, value) with a non-empty value.  The reserved key is
\* refused before the lock is asked for.
Put(key, value) ==
    /\ opsLeft > 0
    /\ (isReserved(key) \/ lockFree)
    /\ \E r \in {put(TrieOf(root, db), key, value)} :
           Finish("put", key, value, r, ~isReserved(key))

\* await trie.put(key, empty value).
PutEmpty(key) ==
    /\ opsLeft > 0
    /\ (isReserved(key) \/ lockFree)
    /\ \E r \in {put(TrieOf(root, db), key, <<>>)} :
           Finish("put", key, <<>>, r, ~isReserved(key))

\* await trie.del(key).
Del(key) ==
    /\ opsLeft > 0
    /\ lockFree
    /\ \E r \in {del(TrieOf(root, db), key)} :
           Finish("del", key, <<>>, r, TRUE)

Next ==
    \/ \E key \in Keys, value \in Values : Put(key, value)
    \/ \E key \in Keys : Del(key)
    \/ \E key \in Keys : PutEmpty(key)

\* A trie constructed empty, then used by one caller who awaits every call.
Spec == Init /\ [][Next]_vars

\* The mappings a store may hold when a trie is constructed over it.
StoredMaps ==
    {w \in [Keys -> Values \cup {null}] :
        Cardinality({k \in Keys : w[k] # null}) <= MaxStoredKeys}

\* new Trie({ db, root, deleteFromDB: true }) over the store and root an
\* earlier instance with the same options left behind after putting the pairs
\* of a mapping.
InitReopen ==
    /\ deleteFromDB = TRUE
    /\ persistRoot = FALSE
    /\ useHashedKeys = FALSE
    /\ lastBatch = <<>>
    /\ proofCall = NoProofCall
    /\ NoConcurrency
    /\ copied = NoCopy
    /\ \E w \in StoredMaps :
          /\ \A k \in Keys : isReserved(k) => w[k] = null
          /\ \E t \in {buildFrom(TrieOf(EMPTY_TRIE_ROOT, <<>>), w, 1)} :
                /\ root = t.root
                /\ db = t.db
                /\ prev = t
                /\ prev2 = t.root
          /\ written = w
    /\ lockFree = TRUE
    /\ lastOp = NoOp
    /\ prevOp = NoOp
    /\ opsLeft = MaxReopenOps

\* A pruning trie constructed over a stored trie, then used by one caller.
SpecReopen == InitReopen /\ [][Next]_vars

\* The operations callers put in a batch, and the batches they issue.
BatchKeys == {<<17>>, <<17, 33>>, ROOT_DB_KEY}

BatchOps ==
    {BatchPut(k, ShortValue) : k \in BatchKeys}
        \cup {BatchPutNoValue(k) : k \in BatchKeys}
        \cup {BatchDel(k) : k \in BatchKeys}

Batches == UNION {[1..n -> BatchOps] : n \in 0..MaxBatchLen}

\* An operation of a batch that throws before it asks for the lock.
throwsUnlocked(op) ==
    op.type = "put" /\ (~op.hasValue \/ isReserved(op.key))

\* The call batch(ops) ended with an error thrown while the lock was held.
RECURSIVE batchThrowsLocked(_, _)
batchThrowsLocked(r, ops) ==
    IF ops = <<>> THEN FALSE
    ELSE LET r1 == batchOp(TrieOf(r.root, r.db), Head(ops))
         IN  IF r1.err # "" THEN ~throwsUnlocked(Head(ops))
             ELSE batchThrowsLocked(r1, Tail(ops))

\* await trie.batch(ops).  A batch gets nowhere while the lock is held unless
\* it is empty or its first operation throws before asking for the lock.
Batch(ops) ==
    /\ opsLeft > 0
    /\ (IF ops = <<>> THEN TRUE ELSE lockFree \/ throwsUnlocked(Head(ops)))
    /\ \E r \in {batch(TrieOf(root, db), ops)} :
          /\ root' = r.root
          /\ db' = r.db
          /\ lockFree' = (lockFree /\ ~batchThrowsLocked(TrieOf(root, db), ops))
          /\ lastOp' = [type |-> "batch", key |-> <<>>, value |-> <<>>, err |-> r.err,
                        fresh |-> FALSE, plain |-> FALSE]
    /\ lastBatch' = ops
    /\ prevOp' = lastOp
    /\ prev' = TrieOf(root, db)
    /\ prev2' = prev.root
    /\ opsLeft' = opsLeft - 1
    /\ UNCHANGED <<deleteFromDB, persistRoot, useHashedKeys, written, proofCall>>
    /\ UNCHANGED <<concVars, copied>>

\* new Trie(opts) with any of the options deleteFromDB, persistRoot and
\* useHashedKeys.
InitBatch ==
    /\ root = EMPTY_TRIE_ROOT
    /\ db = <<>>
    /\ deleteFromDB \in BOOLEAN
    /\ persistRoot \in BOOLEAN
    /\ useHashedKeys \in BOOLEAN
    /\ lockFree = TRUE
    /\ lastOp = NoOp
    /\ prevOp = NoOp
    /\ lastBatch = <<>>
    /\ proofCall = NoProofCall
    /\ NoConcurrency
    /\ copied = NoCopy
    /\ prev = TrieOf(EMPTY_TRIE_ROOT, <<>>)
    /\ prev2 = EMPTY_TRIE_ROOT
    /\ written = [k \in Keys |-> null]
    /\ opsLeft = MaxBatchCalls

NextBatch ==
    \/ \E key \in Keys, value \in Values : Put(key, value)
    \/ \E key \in Keys : Del(key)
    \/ \E key \in Keys : PutEmpty(key)
    \/ \E ops \in Batches : Batch(ops)

\* A trie constructed empty with any options, then used by one caller who
\* awaits every put, del and batch.
SpecBatch == InitBatch /\ [][NextBatch]_vars

\* The keys proofs are made and verified for.
ProofKeys == {<<17>>, <<17, 33>>, <<33>>}

\* The root hashes a verifier may be given: the hash of any node body in the
\* store (the current root, earlier roots, inner nodes), the empty root, or
\* none.
RootHashes == DOMAIN db \cup {EMPTY_TRIE_ROOT, undefined}

\* The node bodies proofs are made of: every body in the store and every
\* entry of a proof the trie creates (embedded nodes included).
proofEntries(proof) == {proof[i] : i \in 1..Len(proof)}

ProofPool ==
    {db[h] : h \in DOMAIN db}
        \cup UNION {proofEntries(createProof(TrieOf(root, db), k)) : k \in ProofKeys}

\* The proofs of up to MaxProofLen entries over a pool of node bodies.
Proofs(pool) == UNION {[1..n -> pool] : n \in 0..MaxProofLen}

\* A verifyProof call that ended with result r; the caller issues nothing
\* after it.
FinishProof(kind, rootHash, key, proof, r) ==
    /\ proofCall' = [kind |-> kind, rootHash |-> rootHash, key |-> key,
                     proof |-> proof, value |-> r.value, err |-> r.err,
                     proofRoot |-> r.proofRoot]
    /\ opsLeft' = 0
    /\ UNCHANGED <<root, db, deleteFromDB, persistRoot, useHashedKeys, lockFree,
                   lastOp, prevOp, prev, prev2, written, lastBatch>>
    /\ UNCHANGED <<concVars, copied>>

\* await trie.verifyProof(trie.root, key, await trie.createProof(key)).
Prove(key) ==
    /\ \E proof \in {createProof(TrieOf(root, db), key)} :
          \E r \in {verifyProof(root, key, proof)} :
              FinishProof("own", root, key, proof, r)

\* await trie.verifyProof(rootHash, key, proof) with a proof from anywhere.
VerifyProof(rootHash, key, proof) ==
    \E r \in {verifyProof(rootHash, key, proof)} :
        FinishProof("given", rootHash, key, proof, r)

\* new Trie(opts) with or without hashed keys; nothing is deleted from the
\* store, so that it keeps the nodes of every root the trie has had.
InitProof ==
    /\ root = EMPTY_TRIE_ROOT
    /\ db = <<>>
    /\ deleteFromDB = FALSE
    /\ persistRoot = FALSE
    /\ useHashedKeys \in BOOLEAN
    /\ lockFree = TRUE
    /\ lastOp = NoOp
    /\ prevOp = NoOp
    /\ lastBatch = <<>>
    /\ proofCall = NoProofCall
    /\ NoConcurrency
    /\ copied = NoCopy
    /\ prev = TrieOf(EMPTY_TRIE_ROOT, <<>>)
    /\ prev2 = EMPTY_TRIE_ROOT
    /\ written = [k \in Keys |-> null]
    /\ opsLeft = MaxProofOps

NextProof ==
    \/ \E key \in Keys, value \in Values : Put(key, value)
    \/ \E key \in Keys : Del(key)
    \/ /\ proofCall.kind = "none"
       /\ \E key \in ProofKeys : Prove(key)
    \/ /\ proofCall.kind = "none"
       /\ \E pool \in {ProofPool} :
             \E rootHash \in RootHashes, key \in ProofKeys, proof \in Proofs(pool) :
                 VerifyProof(rootHash, key, proof)

\* A trie filled by some puts and dels, then a proof created and verified, or
\* a proof made of any node bodies verified against any root hash.
SpecProof == InitProof /\ [][NextProof]_vars

\* ------------------------------------------------------------ concurrency

\* A lock.wait() that never suspends the caller.
lockNeverTaken(free) == FALSE

\* await this.lock.wait() suspends the caller while the one permit is taken.
lockTaken(free) == ~free

\* The trie after the call of caller record rec has run alone on trie t.
applySerial(t, rec) ==
    CHOOSE after \in {TrieOf(r.root, r.db) :
                        r \in {IF rec.type = "put" THEN put(t, rec.key, rec.value)
                                ELSE del(t, rec.key)}} : TRUE

\* Caller c, whose call is rec, reaches await this.lock.wait(): it takes the
\* permit, or joins the waiters.
LockWait(c, rec) ==
    IF lockTaken(lockFree)
      THEN /\ callers' = [callers EXCEPT ![c] = [rec EXCEPT !.pc = "waiting",
                                                           !.waited = TRUE]]
           /\ waiters' = Append(waiters, c)
           /\ UNCHANGED <<lockFree, serial>>
      ELSE /\ callers' = [callers EXCEPT ![c] = [rec EXCEPT !.pc = "locked"]]
           /\ lockFree' = FALSE
           /\ serial' = applySerial(serial, rec)
           /\ UNCHANGED waiters

\* Caller c's call throws err; a lock it holds stays held.
Throw(c, rec, err) ==
    callers' = [callers EXCEPT ![c] = [rec EXCEPT !.pc = "threw", !.err = err]]

\* What no step of a concurrent caller changes.
ConcFrame ==
    UNCHANGED <<deleteFromDB, persistRoot, useHashedKeys, lastOp, prevOp, prev,
                prev2, written, lastBatch, proofCall, copied, opsLeft>>

\* Caller c calls put(key, value): the reserved key is refused, otherwise the
\* lock is asked for (by del when the value is empty).
CallPut(c, key, value) ==
    /\ callers[c].pc = "idle"
    /\ LET rec == [callers[c] EXCEPT !.type = "put", !.key = key, !.value = value]
       IN  IF isReserved(key)
             THEN Throw(c, rec, ReservedKeyError) /\ UNCHANGED <<lockFree, waiters, serial>>
             ELSE LockWait(c, rec)
    /\ UNCHANGED <<root, db, inflight, lastRead>>
    /\ ConcFrame

\* Caller c calls del(key).
CallDel(c, key) ==
    /\ callers[c].pc = "idle"
    /\ LockWait(c, [callers[c] EXCEPT !.type = "del", !.key = key])
    /\ UNCHANGED <<root, db, inflight, lastRead>>
    /\ ConcFrame

\* Caller c calls batch(ops).
CallBatch(c, ops) ==
    /\ callers[c].pc = "idle"
    /\ callers' = [callers EXCEPT ![c] = [Idle EXCEPT !.pc = "batch", !.type = "batch",
                                                      !.ops = ops, !.inBatch = TRUE]]
    /\ UNCHANGED <<root, db, lockFree, waiters, inflight, serial, lastRead>>
    /\ ConcFrame

\* The loop of batch for caller c: the next operation is started, or, after
\* the last one, the root is persisted and batch returns.
BatchNext(c) ==
    /\ callers[c].pc = "batch"
    /\ IF callers[c].ops = <<>>
         THEN /\ db' = PersistRoot(root, db)
              /\ callers' = [callers EXCEPT ![c].pc = "done"]
              /\ UNCHANGED <<lockFree, waiters, serial>>
         ELSE LET op == Head(callers[c].ops)
                  rec == [callers[c] EXCEPT !.type = op.type, !.key = op.key,
                                            !.value = op.value, !.ops = Tail(@)]
              IN  /\ IF op.type = "put" /\ ~op.hasValue
                        THEN /\ Throw(c, rec, InvalidBatchError)
                             /\ UNCHANGED <<lockFree, waiters, serial>>
                      ELSE IF op.type = "put" /\ isReserved(op.key)
                        THEN /\ Throw(c, rec, ReservedKeyError)
                             /\ UNCHANGED <<lockFree, waiters, serial>>
                      ELSE LockWait(c, rec)
                  /\ UNCHANGED db
    /\ UNCHANGED <<root, inflight, lastRead>>
    /\ ConcFrame

\* Caller c, holding the lock, runs the body of put or del up to its store
\* write: the path is read, the new nodes are formatted, and the new root is
\* assigned before the write is awaited.  r is what the body leaves when its
\* writes succeed.  An error thrown by the body leaves everything as it was.
Mutate(c) ==
    /\ callers[c].pc = "locked"
    /\ \E r \in {IF callers[c].type = "put"
                    THEN put(TrieOf(root, db), callers[c].key, callers[c].value)
                    ELSE del(TrieOf(root, db), callers[c].key)} :
          IF r.err # ""
            THEN /\ Throw(c, callers[c], r.err)
                 /\ UNCHANGED <<root, inflight>>
            ELSE /\ root' = r.root
                 /\ inflight' = [caller |-> c, pre |-> TrieOf(root, db), post |-> r]
                 /\ callers' = [callers EXCEPT ![c].pc = "writing"]
    /\ UNCHANGED <<db, lockFree, waiters, serial, lastRead>>
    /\ ConcFrame

\* The store completes the writes caller c awaits (the batch of _saveStack or
\* the put of _createInitialNode, and the persisted root).
StoreWrite(c) ==
    /\ callers[c].pc = "writing"
    /\ db' = inflight.post.db
    /\ callers' = [callers EXCEPT ![c].pc = "written"]
    /\ UNCHANGED <<root, lockFree, waiters, inflight, serial, lastRead>>
    /\ ConcFrame

StoreError == "store write failed"

\* The store fails a write caller c awaits: nothing is written, and the
\* error leaves put or del before signal() is reached.
StoreFail(c) ==
    /\ callers[c].pc = "writing"
    /\ inflight.post.db # inflight.pre.db
    /\ Throw(c, callers[c], StoreError)
    /\ UNCHANGED <<root, db, lockFree, waiters, inflight, serial, lastRead>>
    /\ ConcFrame

\* Caller c reaches this.lock.signal(): the oldest waiter gets the permit,
\* or the permit is free again.  put or del returns: to batch, or to c.
Release(c) ==
    /\ callers[c].pc = "written"
    /\ LET after == [callers EXCEPT
                         ![c].pc = IF callers[c].inBatch THEN "batch" ELSE "done",
                         ![c].opsDone = @ + 1]
       IN  IF waiters = <<>>
             THEN /\ lockFree' = TRUE
                  /\ callers' = after
                  /\ UNCHANGED <<waiters, serial>>
             ELSE /\ callers' = [after EXCEPT ![Head(waiters)].pc = "locked"]
                  /\ waiters' = Tail(waiters)
                  /\ serial' = applySerial(serial, callers[Head(waiters)])
                  /\ UNCHANGED lockFree
    /\ UNCHANGED <<root, db, inflight, lastRead>>
    /\ ConcFrame

\* Some caller holds the lock and is at a suspension point of put or del.
Mutating == \E c \in Callers : callers[c].pc \in {"locked", "writing", "written"}

\* A get that asks for the lock as a mutation does: it returns only when the
\* permit is available.
getReturnsUnderLock(key, value, pre, post) ==
    /\ lockFree
    /\ lastRead.kind = "none"
    /\ lastRead' = [kind |-> "get", key |-> key, value |-> value,
                    during |-> \E c \in Callers : callers[c].pc = "writing",
                    pre |-> pre, post |-> post]
    /\ UNCHANGED <<root, db, lockFree, callers, waiters, inflight, serial>>
    /\ UNCHANGED <<deleteFromDB, persistRoot, useHashedKeys, lastOp, prevOp, prev,
                   prev2, written, lastBatch, proofCall, copied, opsLeft>>

\* get(key) returns value to the reader: get has no lock.wait() and assigns
\* nothing, so the step needs no permit and changes only the reader's record.
getReturns(key, value, pre, post) ==
    /\ lastRead.kind = "none"
    /\ lastRead' = [kind |-> "get", key |-> key, value |-> value,
                    during |-> \E c \in Callers : callers[c].pc = "writing",
                    pre |-> pre, post |-> post]
    /\ UNCHANGED <<root, db, lockFree, callers, waiters, inflight, serial>>
    /\ ConcFrame

\* A reader calls get(key) and gets its answer from the root and the store as
\* they are.  pre and post are what get gives on the trie before and after
\* the mutation in flight.
Read(key) ==
    \E value \in {get(TrieOf(root, db), key)},
       pre \in {get(inflight.pre, key)},
       post \in {get(TrieOf(inflight.post.root, inflight.post.db), key)} :
        getReturns(key, value, pre, post)

\* The keys and operations concurrent callers use.
ConcKeys == {<<17>>, <<18>>}

ConcBatchOps ==
    {BatchPut(k, ShortValue) : k \in ConcKeys} \cup {BatchPutNoValue(<<17>>)}

ConcBatches == UNION {[1..n -> ConcBatchOps] : n \in 0..MaxConcBatchLen}

\* new Trie(opts), handed to NumCallers callers and a reader.
InitConc ==
    /\ root = EMPTY_TRIE_ROOT
    /\ db = <<>>
    /\ deleteFromDB = FALSE
    /\ persistRoot \in BOOLEAN
    /\ useHashedKeys = FALSE
    /\ lockFree = TRUE
    /\ lastOp = NoOp
    /\ prevOp = NoOp
    /\ lastBatch = <<>>
    /\ proofCall = NoProofCall
    /\ NoConcurrency
    /\ copied = NoCopy
    /\ prev = TrieOf(EMPTY_TRIE_ROOT, <<>>)
    /\ prev2 = EMPTY_TRIE_ROOT
    /\ written = [k \in Keys |-> null]
    /\ opsLeft = 0

NextConc ==
    \/ \E c \in Callers, key \in ConcKeys : CallPut(c, key, ShortValue)
    \/ \E c \in Callers, key \in ConcKeys : CallDel(c, key)
    \/ \E c \in Callers, ops \in ConcBatches : CallBatch(c, ops)
    \/ \E c \in Callers : BatchNext(c)
    \/ \E c \in Callers : Mutate(c)
    \/ \E c \in Callers : StoreWrite(c)
    \/ \E c \in Callers : StoreFail(c)
    \/ \E c \in Callers : Release(c)
    \/ \E key \in ConcKeys : Read(key)

\* One trie instance used by several callers who do not await one another,
\* each step running up to the next await.
SpecConc == InitConc /\ [][NextConc]_vars

\* ------------------------------------------------------- root and copy

InvalidRootError == "Invalid root length. Roots are 32 bytes"

\* A root setter without the length test.
setRootUnchecked(current, value) ==
    [root |-> IF value = undefined THEN EMPTY_TRIE_ROOT ELSE value, err |-> ""]

\* set root(value) on a trie whose root is current: a falsy value stands for
\* EMPTY_TRIE_ROOT, a value that is not _hashLen bytes long throws and
\* leaves _root as it is (a digest is HashLen bytes long).
setRoot(current, value) ==
    LET v == IF value = undefined THEN EMPTY_TRIE_ROOT ELSE value
        length == IF v.kind = "hash" THEN HashLen ELSE Len(v.of)
    IN  IF length # HashLen THEN [root |-> current, err |-> InvalidRootError]
        ELSE [root |-> v, err |-> ""]

\* The values assigned to trie.root: undefined, Buffers of 0, 31, 32 and 33
\* bytes (none of them the hash of a node), the empty root and the hash of
\* any stored node.
RootValues ==
    {undefined, EMPTY_TRIE_ROOT, Buf(<<>>), Buf(Tail(LongValue)), Buf(LongValue),
     Buf(Append(LongValue, 2))} \cup {k \in DOMAIN db : k.kind = "hash"}

\* The step of a call that is not an awaited put or del of the trie itself:
\* what it records and what it leaves alone.
OtherCall(type, key, value, err) ==
    /\ lastOp' = [type |-> type, key |-> key, value |-> value, err |-> err,
                  fresh |-> FALSE, plain |-> FALSE]
    /\ prevOp' = lastOp
    /\ prev' = TrieOf(root, db)
    /\ prev2' = prev.root
    /\ opsLeft' = opsLeft - 1
    /\ UNCHANGED <<deleteFromDB, persistRoot, useHashedKeys, lockFree, written,
                   lastBatch, proofCall>>
    /\ UNCHANGED concVars

\* trie.root = value.
SetRoot(value) ==
    /\ opsLeft > 0
    /\ \E r \in {setRoot(root, value)} :
           /\ root' = r.root
           /\ OtherCall("setRoot", <<>>, value, r.err)
    /\ UNCHANGED <<db, copied>>

\* trie.copy(): new Trie with the options of this one, the same store
\* (MapDB.copy() hands over the same map) and root: this.root, which the
\* constructor assigns through the setter; the new trie has a lock of its
\* own.
Copy ==
    /\ opsLeft > 0
    /\ ~copied.made
    /\ \E r \in {setRoot(EMPTY_TRIE_ROOT, root)} :
           /\ copied' = [made |-> r.err = "", root |-> r.root, lockFree |-> TRUE]
           /\ OtherCall("copy", <<>>, <<>>, r.err)
    /\ UNCHANGED <<root, db>>

\* A copy() that hands back the trie itself: a put on it assigns the root of
\* the trie it was copied from.
CopyPutOnSameTrie(key, value) ==
    /\ opsLeft > 0
    /\ copied.made
    /\ (isReserved(key) \/ copied.lockFree)
    /\ \E r \in {put(TrieOf(copied.root, db), key, value)} :
           /\ copied' = [copied EXCEPT
                            !.root = r.root,
                            !.lockFree = copied.lockFree
                                            /\ (r.err = "" \/ isReserved(key))]
           /\ root' = r.root
           /\ db' = r.db
           /\ OtherCall("copyPut", key, value, r.err)

\* await copy.put(key, value) on the trie copy() returned; an empty value is
\* a del.  It assigns the copy's _root and writes to the store both tries
\* use.
CopyPut(key, value) ==
    /\ opsLeft > 0
    /\ copied.made
    /\ (isReserved(key) \/ copied.lockFree)
    /\ \E r \in {put(TrieOf(copied.root, db), key, value)} :
           /\ copied' = [copied EXCEPT
                            !.root = r.root,
                            !.lockFree = copied.lockFree
                                            /\ (r.err = "" \/ isReserved(key))]
           /\ db' = r.db
           /\ OtherCall("copyPut", key, value, r.err)
    /\ UNCHANGED root

\* new Trie(opts) with deleteFromDB and persistRoot on or off.
InitCopy ==
    /\ root = EMPTY_TRIE_ROOT
    /\ db = <<>>
    /\ deleteFromDB \in BOOLEAN
    /\ persistRoot \in BOOLEAN
    /\ useHashedKeys = FALSE
    /\ lockFree = TRUE
    /\ lastOp = NoOp
    /\ prevOp = NoOp
    /\ lastBatch = <<>>
    /\ proofCall = NoProofCall
    /\ NoConcurrency
    /\ copied = NoCopy
    /\ prev = TrieOf(EMPTY_TRIE_ROOT, <<>>)
    /\ prev2 = EMPTY_TRIE_ROOT
    /\ written = [k \in Keys |-> null]
    /\ opsLeft = MaxCopyOps

NextCopy ==
    \/ \E key \in BatchKeys, value \in Values : Put(key, value)
    \/ \E key \in BatchKeys : Del(key)
    \/ \E value \in RootValues : SetRoot(value)
    \/ Copy
    \/ \E key \in BatchKeys, value \in Values \cup {<<>>} : CopyPut(key, value)

\* A trie whose root is also assigned from outside and that is copied once,
\* the trie and its copy then used in turn by one caller who awaits every
\* call.
SpecCopy == InitCopy /\ [][NextCopy]_vars

\* ----------------------------------------------------------------- claims

Cur == TrieOf(root, db)

\* The last call was an awaited put of a non-empty value that returned.
PutDone == lastOp.type = "put" /\ lastOp.value # <<>> /\ lastOp.err = ""

\* The last call was an awaited del that returned.
DelDone == lastOp.type = "del" /\ lastOp.err = ""

\* The nodes reachable from a reference through the store (a reference whose
\* body is missing from the store contributes nothing).
RECURSIVE nodesFrom(_, _)
nodesFrom(d, ref) ==
    IF ref = EmptyBuf THEN {}
    ELSE LET found == lookupNode(d, ref)
         IN  IF ~found.ok THEN {}
             ELSE IF isLeaf(found.node) THEN {found.node}
             ELSE IF isExtension(found.node)
               THEN {found.node} \cup nodesFrom(d, found.node.value)
             ELSE {found.node}
                  \cup UNION {nodesFrom(d, found.node.branches[i]) : i \in 0..15}

\* Entries of a branch that mean something: its children and its value.
meaningfulEntries(node) ==
    Len(getChildren(node)) + (IF node.value # null THEN 1 ELSE 0)

\* C1: after put(k, v) with a non-empty v has completed, get(k) returns v.
C1_PutThenGet == PutDone => get(Cur, lastOp.key) = lastOp.value

\* C2: after del(k) has completed, get(k) is null and get(k2) is what it was
\* before the call for every other key k2.
C2_DelRemovesExactlyKey ==
    DelDone =>
        /\ get(Cur, lastOp.key) = null
        /\ \A k2 \in Keys \ {lastOp.key} : get(Cur, k2) = get(prev, k2)

\* C3: pairs with pairwise distinct keys put into an empty trie give the same
\* root in whatever order they are put: the root reached is the root reached
\* by putting the same pairs in the fixed order KeyOrder.
C3_OrderIndependence ==
    lastOp.fresh =>
        root = buildFrom(TrieOf(EMPTY_TRIE_ROOT, <<>>), written, 1).root

\* Four pairs put with the key KeyOrder takes first put last, and a key put
\* before a key it is a prefix of.
C3_Witness ==
    /\ lastOp.fresh
    /\ lastOp.key = <<33>>
    /\ prevOp.key = <<17, 33>>
    /\ written[<<17>>] # null
    /\ written[<<>>] # null
    /\ root = buildFrom(TrieOf(EMPTY_TRIE_ROOT, <<>>), written, 1).root

\* C4: on a trie built by puts, put(k, v) of an absent key k followed by del(k)
\* gives back the root the trie had before the put.
C4_PutDelRestoresRoot ==
    (/\ DelDone
     /\ prevOp.type = "put" /\ prevOp.err = "" /\ prevOp.fresh
     /\ prevOp.key = lastOp.key)
        => root = prev2

\* C5: once every key put has been deleted again with del, the root is
\* EMPTY_TRIE_ROOT.
C5_EmptyAfterDeletingAll ==
    (lastOp.err = "" /\ lastOp.plain /\ \A k \in Keys : written[k] = null)
        => root = EMPTY_TRIE_ROOT

\* C6: after a completed put or del every branch reachable from the root has
\* at least two meaningful entries.
C6_BranchMinimality ==
    lastOp.err = "" =>
        \A n \in nodesFrom(db, root) : isBranch(n) => meaningfulEntries(n) >= 2

\* C7: after a completed put or del no extension reachable from the root has
\* an empty key or an extension as its child.
C7_ExtensionMinimality ==
    lastOp.err = "" =>
        \A n \in nodesFrom(db, root) :
            isExtension(n) =>
                /\ n.key # <<>>
                /\ LET child == lookupNode(db, n.value)
                   IN  child.ok => ~isExtension(child.node)

\* A del has collapsed a branch into an extension that was not in the trie
\* before, and a put has split a node under an extension it made.
C7_Witness ==
    /\ DelDone
    /\ \E n \in nodesFrom(db, root) :
          /\ isExtension(n)
          /\ Len(n.key) = 2
          /\ n \notin nodesFrom(prev.db, prev.root)
          /\ \E m \in nodesFrom(prev.db, prev.root) :
                isExtension(m) /\ Len(m.key) = 1

\* C8: the same put, or the same del, issued twice in a row leaves the root
\* the first one produced.
C8_Idempotence ==
    (/\ PutDone \/ DelDone
     /\ prevOp.err = ""
     /\ prevOp.type = lastOp.type /\ prevOp.key = lastOp.key
     /\ prevOp.value = lastOp.value)
        => root = prev.root

\* A del that took a key out of a trie of two keys has been issued again.
C8_Witness ==
    /\ DelDone
    /\ prevOp.type = "del" /\ prevOp.err = "" /\ prevOp.key = lastOp.key
    /\ prev2 # prev.root
    /\ root = prev.root
    /\ root # EMPTY_TRIE_ROOT

\* C9: del of a key whose get is null changes neither the root nor the result
\* of any get.
C9_DelAbsentIsNoOp ==
    (DelDone /\ get(prev, lastOp.key) = null) =>
        /\ root = prev.root
        /\ \A k2 \in Keys : get(Cur, k2) = get(prev, k2)

\* C10: put(k, empty value) ends as del(k) would have from the same state:
\* the same root, the same store, the same outcome; and get(k) is null after.
C10_PutEmptyIsDel ==
    (lastOp.type = "put" /\ lastOp.value = <<>>) =>
        /\ Result(root, db, lastOp.err) = del(prev, lastOp.key)
        /\ get(Cur, lastOp.key) = null

\* C15: a put or del whose path from the root meets a node that is missing
\* from the store leaves the root as it was.
C15_MissingNodeKeepsRoot ==
    (/\ lastOp.type \in {"put", "del"}
     /\ ~isReserved(lastOp.key)
     /\ prev.root # EMPTY_TRIE_ROOT
     /\ findPath(prev, appliedKey(lastOp.key), TRUE).err # "")
        => root = prev.root

\* C19: with the root persisted, put and del under the reserved key throw the
\* reserved-key error and leave the root and the store as they were.
C19_ReservedKeyRefused ==
    (persistRoot /\ lastOp.type \in {"put", "del"} /\ lastOp.key = ROOT_DB_KEY)
        => /\ lastOp.err = ReservedKeyError
           /\ root = prev.root
           /\ db = prev.db

\* The last call was a batch with a put without a value among its operations
\* and no operation under a refused key.
InvalidBatch ==
    /\ lastOp.type = "batch"
    /\ \E i \in 1..Len(lastBatch) :
          lastBatch[i].type = "put" /\ ~lastBatch[i].hasValue
    /\ \A i \in 1..Len(lastBatch) : ~isReserved(lastBatch[i].key)

\* C16: a batch with a put without a value among its operations throws the
\* invalid-operation error and leaves the root as it was before the call.
C16_InvalidBatchKeepsRoot ==
    InvalidBatch => (lastOp.err = InvalidBatchError /\ root = prev.root)

\* C20: with the root persisted, after every put, del or batch that returned
\* the store holds the current root under ROOT_DB_KEY; with the root not
\* persisted the store never holds an entry under ROOT_DB_KEY.
C20_PersistedRootEntry ==
    /\ (persistRoot /\ lastOp.type # "none" /\ lastOp.err = "")
          => (dbHas(db, Buf(ROOT_DB_KEY)) /\ db[Buf(ROOT_DB_KEY)] = root)
    /\ ~persistRoot => ~dbHas(db, Buf(ROOT_DB_KEY))

\* C17: the proof a trie creates for a key verifies against the trie's root
\* and gives what get gives for the key, without an error.
C17_ProofSoundness ==
    proofCall.kind = "own" =>
        /\ proofCall.err = ""
        /\ proofCall.value = get(Cur, proofCall.key)

\* The value the key has in the trie the root hash commits to: the nodes are
\* the preimages of the hashes, which the store of the trie holds.
committedValue(rootHash, key) == get(TrieOf(rootHash, db), key)

\* The entries of a created proof whose nodes are referred to by hash: the
\* root, and every node that serialises to 32 bytes or more (a shorter node
\* is embedded in its parent, whose body then holds it).
hashedEntries(pr) ==
    {pr[i] : i \in {j \in 1..Len(pr) : j = 1 \/ encodedLength(pr[j]) >= 32}}

\* The proof lacks the body of a node that is referred to by hash and lies on
\* the path of the key in the trie the root hash commits to.
lacksPathNode(rootHash, key, proof) ==
    hashedEntries(createProof(TrieOf(rootHash, db), key)) \ proofEntries(proof) # {}

\* C18: verifyProof called with a root hash either throws the invalid-proof
\* error or returns the value the key has in the trie the root hash commits
\* to, whatever node bodies the proof is made of; it throws when the proof
\* lacks a hashed node of the key's path, and the proof trie's root stays the
\* root hash given.
C18_ProofAuthenticatesRoot ==
    (proofCall.kind = "given" /\ proofCall.rootHash # undefined) =>
        /\ \/ proofCall.err = InvalidProofError
           \/ /\ proofCall.err = ""
              /\ proofCall.value = committedValue(proofCall.rootHash, proofCall.key)
        /\ lacksPathNode(proofCall.rootHash, proofCall.key, proofCall.proof)
              => proofCall.err = InvalidProofError
        /\ proofCall.proofRoot = proofCall.rootHash

\* A proof verified against a root the trie had before its last put returned
\* the value the key had then, which is not the value it has now.
C18_Witness ==
    /\ proofCall.kind = "given"
    /\ proofCall.rootHash = prev.root
    /\ proofCall.rootHash # root
    /\ proofCall.err = ""
    /\ proofCall.value # null
    /\ proofCall.value = committedValue(proofCall.rootHash, proofCall.key)
    /\ proofCall.value # get(Cur, proofCall.key)

\* The callers between acquiring the lock and releasing it.
InCritical == {c \in Callers : callers[c].pc \in {"locked", "writing", "written"}}

\* C11: at most one put or del is between acquiring and releasing the lock,
\* and whenever the lock is free the root is the root got by running the puts
\* and dels one at a time in the order they acquired the lock.
C11_MutationsSerialized ==
    /\ Cardinality(InCritical) <= 1
    /\ lockFree => root = serial.root

\* Two callers have put different keys, the second having waited for the
\* lock, and both calls have returned.
C11_Witness ==
    /\ \A c \in Callers : callers[c].pc = "done" /\ callers[c].type = "put"
    /\ callers[1].key # callers[2].key
    /\ \E c \in Callers : callers[c].waited
    /\ lockFree
    /\ root = serial.root
    /\ get(Cur, callers[1].key) # null
    /\ get(Cur, callers[2].key) # null

\* Caller c is between two operations of its batch: one has returned and one
\* is still to run.
BetweenBatchOps(c) ==
    /\ callers[c].inBatch
    /\ callers[c].opsDone >= 1
    /\ \/ callers[c].pc = "batch" /\ callers[c].ops # <<>>
       \/ callers[c].pc = "waiting"

\* C12: while a caller is between two operations of its batch, no put or del
\* of another caller has taken effect (has assigned the root).
C12_BatchHoldsLock ==
    \A c \in Callers : \A c2 \in Callers \ {c} :
        BetweenBatchOps(c) => callers[c2].pc \notin {"writing", "written"}

\* C13: a get made while a put or del is at a suspension point returns what
\* the key has in the trie before the mutation or in the trie after it.
C13_ReaderAtomicity ==
    lastRead.during => lastRead.value \in {lastRead.pre, lastRead.post}

\* C14: when the store write of a put or del has failed, the root is the root
\* from before the call.
C14_CommitOnBatchSuccess ==
    \A c \in Callers :
        (callers[c].pc = "threw" /\ callers[c].err = StoreError)
            => root = inflight.pre.root

\* The last call was an awaited put or del that returned.
CallDone == lastOp.type \in {"put", "del"} /\ lastOp.err = ""

\* C21: after every put or del that has completed, with deleteFromDB on or
\* off, the root is EMPTY_TRIE_ROOT or the body of every hash reference
\* reachable from the root is in the store: no deletion takes away a body
\* that a path from the root still refers to.
C21_ReachableNodesStored ==
    (CallDone /\ root # EMPTY_TRIE_ROOT) =>
        /\ dbHas(db, root)
        /\ \A n \in nodesFrom(db, root) :
               /\ isExtension(n) => (isRawNode(n.value) \/ dbHas(db, n.value))
               /\ isBranch(n) =>
                      \A i \in 0..15 :
                          \/ n.branches[i] = EmptyBuf
                          \/ isRawNode(n.branches[i])
                          \/ dbHas(db, n.branches[i])

\* C22: with deleteFromDB on, after every put or del that has completed every
\* node body in the store, the entry under ROOT_DB_KEY aside, is the body of a
\* node reachable from the current root.
C22_NoOrphans ==
    (deleteFromDB /\ CallDone) =>
        \A k \in DOMAIN db \ {Buf(appliedKey(ROOT_DB_KEY))} :
            k \in {hash(serialize(n)) : n \in nodesFrom(db, root)}

\* C23: with deleteFromDB off, put, del and batch never take a node body out
\* of the store and never change one, so the stored bodies only grow; and a
\* root the trie has had (the root before the last call, and the one before
\* that) still gives, over the store as it is now, the get results it gave
\* over the store the previous call left.
C23_OldRootsStayReadable ==
    (~deleteFromDB /\ lastOp.type # "none") =>
        /\ \A k \in DOMAIN prev.db :
               k.kind = "hash" => (dbHas(db, k) /\ db[k] = prev.db[k])
        /\ \A r \in {prev.root, prev2} : \A key \in Keys :
               get(TrieOf(r, db), key) = get(TrieOf(r, prev.db), key)

\* A del has removed a stored key from a trie that keeps its old nodes: the
\* root changed, and the root before the call still answers for the key.
C23_Witness ==
    /\ ~deleteFromDB
    /\ DelDone
    /\ prev.root # EMPTY_TRIE_ROOT
    /\ root \notin {EMPTY_TRIE_ROOT, prev.root}
    /\ get(Cur, lastOp.key) = null
    /\ get(TrieOf(prev.root, db), lastOp.key) # null
    /\ \E k \in DOMAIN db : k.kind = "hash" /\ k \notin {hash(serialize(n)) : n \in nodesFrom(db, root)}

\* C24: every entry of the store is a node body under its own hash, except at
\* most one entry under ROOT_DB_KEY, there only when persistRoot is set and
\* holding the current root; no other store key exists, with useHashedKeys on
\* or off.
C24_StoreLayout ==
    \A k \in DOMAIN db :
        \/ k.kind = "hash" /\ k = hash(db[k])
        \/ persistRoot /\ k = Buf(ROOT_DB_KEY) /\ db[k] = root

\* C25: after every put or del that has completed, every node body in the
\* store serialises to at least HashLen bytes, and every child reference that
\* holds the child itself rather than its hash serialises to fewer than
\* HashLen bytes.
C25_NodeSizeBoundary ==
    CallDone =>
        /\ \A k \in DOMAIN db : k.kind = "hash" => encodedLength(db[k]) >= HashLen
        /\ \A n \in nodesFrom(db, root) :
               /\ (isExtension(n) /\ isRawNode(n.value))
                      => encodedLength(n.value) < HashLen
               /\ isBranch(n) =>
                      \A i \in 0..15 :
                          isRawNode(n.branches[i])
                              => encodedLength(n.branches[i]) < HashLen

\* C30: the lock is released when a put or del that took it ends, also when
\* it ends with an error: whenever no caller is between wait() and signal(),
\* the permit is available, so a later mutation gets the lock and completes.
C30_LockAlwaysReleased == InCritical = {} => lockFree

SameAs(r) ==
    /\ root = r.root
    /\ lastOp.err = r.err
    /\ {k \in DOMAIN db : k.kind = "hash"} = {k \in DOMAIN r.db : k.kind = "hash"}

\* The statement of C28 for every key, the reserved one included: a put on
\* the trie with hashed keys leaves what the put of the digest leaves on a
\* trie that does not hash its keys.
C28_AnyKeyRefinesBase ==
    (useHashedKeys /\ lastOp.type = "put" /\ lastOp.value # <<>>) =>
        SameAs(putUnhashed(prev, keyDigest(lastOp.key), lastOp.value))

\* C28 (amended): with useHashedKeys on and keys that put does not refuse as
\* reserved, the trie is the trie without hashed keys over the digests of the
\* keys: each put and del leaves the root, error and nodes that the same call
\* on the digest leaves on a trie that does not hash, get(k) is the lookup of
\* the digest of k, and createProof and verifyProof route by the digest of k,
\* taken once.
C28_HashedKeysRefineBase ==
    useHashedKeys =>
        /\ (lastOp.type = "put" /\ lastOp.value # <<>> /\ ~isReserved(lastOp.key))
               => SameAs(putUnhashed(prev, keyDigest(lastOp.key), lastOp.value))
        /\ (lastOp.type = "del" \/ (lastOp.type = "put" /\ lastOp.value = <<>>
                                     /\ ~isReserved(lastOp.key)))
               => SameAs(delUnhashed(prev, keyDigest(lastOp.key)))
        /\ \A key \in Keys :
               get(Cur, key) = valueAt(findPath(Cur, keyDigest(key), FALSE))
        /\ \A key \in BatchKeys :
               \E p \in {findPath(Cur, keyDigest(key), FALSE)},
                  proof \in {createProof(Cur, key)} :
                   /\ proof = [i \in 1..Len(p.stack) |-> serialize(p.stack[i])]
                   /\ \E pt \in {fromProof(ProofTrie(root), proof)} :
                          verifyProof(root, key, proof)
                              = proofResult(pt.root,
                                            findPath(TrieOf(pt.root, pt.db),
                                                     keyDigest(key), TRUE))

\* A trie with hashed keys holds two keys after two puts, answers for the
\* key put last, and the proof it makes for that key verifies.
C28_Witness ==
    /\ useHashedKeys
    /\ PutDone
    /\ prevOp.type = "put" /\ prevOp.err = ""
    /\ prev.root # EMPTY_TRIE_ROOT
    /\ root # prev.root
    /\ ~isReserved(lastOp.key)
    /\ get(Cur, lastOp.key) = lastOp.value
    /\ get(Cur, prevOp.key) = prevOp.value
    /\ lastOp.key # prevOp.key
    /\ verifyProof(root, lastOp.key, createProof(Cur, lastOp.key)).value = lastOp.value

C27_RootSetterChecksLength ==
    /\ lastOp.type = "setRoot" =>
           \E v \in {IF lastOp.value = undefined THEN EMPTY_TRIE_ROOT ELSE lastOp.value} :
               /\ db = prev.db
               /\ IF v.kind = "bytes" /\ Len(v.of) # HashLen
                    THEN lastOp.err = InvalidRootError /\ root = prev.root
                    ELSE lastOp.err = "" /\ root = v
    /\ lastOp.type = "copy" =>
           /\ lastOp.err = "" /\ copied.made /\ copied.root = prev.root
           /\ db = prev.db /\ root = prev.root

\* A stored root other than the current one was assigned and became the
\* root; then a Buffer of the wrong length was assigned, the error was thrown
\* and the root stayed.
C27_Witness ==
    /\ lastOp.type = "setRoot" /\ lastOp.err = InvalidRootError
    /\ lastOp.value.kind = "bytes" /\ Len(lastOp.value.of) = HashLen + 1
    /\ prevOp.type = "setRoot" /\ prevOp.err = ""
    /\ prev.root = prevOp.value
    /\ prev.root \notin {prev2, EMPTY_TRIE_ROOT}
    /\ dbHas(db, prev.root)
    /\ root = prev.root

\* C31: after put(k, v) with a non-empty v has completed, on whatever trie
\* the calls before it left (dels included), get(k2) is what it was before
\* the call for every other key k2.
C31_PutChangesNoOtherKey ==
    PutDone =>
        \A k2 \in Keys \ {lastOp.key} : get(Cur, k2) = get(prev, k2)

\* Every hash reference reachable from root r has its body in store d (the
\* empty trie has none).
FullyStored(d, r) ==
    \/ r = EMPTY_TRIE_ROOT
    \/ /\ dbHas(d, r)
       /\ \A n \in nodesFrom(d, r) :
              /\ isExtension(n) => (isRawNode(n.value) \/ dbHas(d, n.value))
              /\ isBranch(n) =>
                     \A i \in 0..15 :
                         \/ n.branches[i] = EmptyBuf
                         \/ isRawNode(n.branches[i])
                         \/ dbHas(d, n.branches[i])

\* The nibbles of a key that a walk has consumed once it has gone through
\* the first n nodes of stack: one for a branch, the node's key otherwise.
RECURSIVE consumedNibbles(_, _)
consumedNibbles(stack, n) ==
    IF n = 0 THEN 0
    ELSE consumedNibbles(stack, n - 1)
             + (IF isBranch(stack[n]) THEN 1 ELSE Len(stack[n].key))

\* What findPath is said to return for path p of target nibbles K on trie t:
\* the stack is the chain of nodes from the root along K, the stopping node
\* last; the node is the stopping node with nothing remaining when that is a
\* leaf whose key is the rest of K or a branch reached with all of K
\* consumed; otherwise there is no node and remaining is the rest of K, the
\* stop being a leaf with another key, an extension whose key is no prefix of
\* the rest, or a branch whose slot for the next nibble is empty.  On the
\* empty trie nothing is visited and nothing consumed.
findPathAsClaimed(t, K, p) ==
    IF t.root = EMPTY_TRIE_ROOT
      THEN p = Path(NoNode, K, <<>>, "")
    ELSE
      /\ p.err = ""
      /\ Len(p.stack) >= 1
      /\ p.stack[1] = lookupNode(t.db, t.root).node
      /\ \A i \in 1..(Len(p.stack) - 1) :
             \E c \in {consumedNibbles(p.stack, i - 1)} :
                 IF isExtension(p.stack[i])
                   THEN /\ c + Len(p.stack[i].key) <= Len(K)
                        /\ SubSeq(K, c + 1, c + Len(p.stack[i].key)) = p.stack[i].key
                        /\ p.stack[i + 1] = lookupNode(t.db, p.stack[i].value).node
                   ELSE /\ isBranch(p.stack[i])
                        /\ c < Len(K)
                        /\ p.stack[i].branches[K[c + 1]] # EmptyBuf
                        /\ p.stack[i + 1]
                               = lookupNode(t.db, p.stack[i].branches[K[c + 1]]).node
      /\ \E c \in {consumedNibbles(p.stack, Len(p.stack) - 1)} :
             /\ c <= Len(K)
             /\ \E s \in {p.stack[Len(p.stack)]}, rem \in {SubSeq(K, c + 1, Len(K))} :
                    IF isLeaf(s)
                      THEN IF s.key = rem
                             THEN p.node = s /\ p.remaining = <<>>
                             ELSE p.node = NoNode /\ p.remaining = rem
                    ELSE IF isExtension(s)
                      THEN /\ ~(/\ Len(s.key) <= Len(rem)
                                /\ SubSeq(rem, 1, Len(s.key)) = s.key)
                           /\ p.node = NoNode /\ p.remaining = rem
                    ELSE IF rem = <<>>
                      THEN p.node = s /\ p.remaining = <<>>
                      ELSE /\ s.branches[rem[1]] = EmptyBuf
                           /\ p.node = NoNode /\ p.remaining = rem

\* C32: on a trie all of whose nodes are stored, findPath(key) returns what
\* it is said to return, for every key: node, remaining and stack.
C32_FindPathResult ==
    FullyStored(db, root) =>
        \A key \in Keys :
            findPathAsClaimed(Cur, bufferToNibbles(key), findPath(Cur, key, FALSE))

====
